---- MODULE Spec2Model ----
(***************************************************************************)
(* A model of test-pilot-skill/scripts/generate_tests.py: the language     *)
(* classifier, the two structural extractors, the two stub generators, the *)
(* report generator, the test file naming rule and the orchestrator main().*)
(*                                                                         *)
(* Text.  A Python str is a TLA+ string: Len, \o and SubSeq are len, + and  *)
(* slicing, so startswith, lower, rfind, count and the regular expressions *)
(* are computed character by character as the code computes them.  None is *)
(* the record None, and a value that may be None is wrapped by Some.       *)
(***************************************************************************)
EXTENDS Integers, Sequences, FiniteSets, TLC

VARIABLES
    pc,             \* position in main()
    argv,           \* sys.argv[1:]
    source_file,    \* main's source_file
    exists,         \* os.path.exists(source_file)
    content,        \* what open(source_file).read() returns
    language,       \* detect_language(source_file)
    code_analysis,  \* the Code Model (or the error dict)
    test_content,   \* the generated stub text
    report_content, \* the generated report text
    test_filename,  \* get_test_filename(source_file, language)
    files,          \* the files written by this invocation: name -> text
    exit_status     \* the process exit status, -1 while running

vars == <<pc, argv, source_file, exists, content, language, code_analysis,
          test_content, report_content, test_filename, files, exit_status>>

-----------------------------------------------------------------------------
(* Bounds of the model. *)

\* definitions (def / async def / class) in a Python source
MaxNodes == 3
\* chunks of text in a JavaScript source
MaxChunks == 2
\* parameters of the callable whose placeholders are synthesised
MaxArgs == 2
\* free functions of a Code Model handed to a generator
MaxFuncs == 2
\* classes of a Code Model handed to a generator
MaxClasses == 1
\* methods of a class of a Code Model handed to a generator
MaxMethods == 1
\* length of a docstring handed to the report generator
MaxDocLen == 102

-----------------------------------------------------------------------------
(* Python values. *)

None == [some |-> FALSE]
Some(v) == [some |-> TRUE, val |-> v]

\* bool(x) for an optional string: None and '' are falsy
Truthy(opt) == opt.some /\ Len(opt.val) > 0

\* s[i-1] of Python, "" past the end
Char(s, i) == IF 1 <= i /\ i <= Len(s) THEN SubSeq(s, i, i) ELSE ""

Upper == "ABCDEFGHIJKLMNOPQRSTUVWXYZ"
Lowercase == "abcdefghijklmnopqrstuvwxyz"
Digits == "0123456789"

\* the set of the characters of a string
CharsOf(str) == {SubSeq(str, i, i) : i \in 1..Len(str)}

UpperSet == CharsOf(Upper)

LowerChar(c) ==
    IF c \in UpperSet
    THEN Char(Lowercase, CHOOSE i \in 1..26 : Char(Upper, i) = c)
    ELSE c

\* str.lower()
RECURSIVE Lower(_)
Lower(s) ==
    IF Len(s) = 0 THEN ""
    ELSE LowerChar(Char(s, 1)) \o Lower(SubSeq(s, 2, Len(s)))

LowerSet == CharsOf(Lowercase)

UpperChar(c) ==
    IF c \in LowerSet
    THEN Char(Upper, CHOOSE i \in 1..26 : Char(Lowercase, i) = c)
    ELSE c

\* str.title(): a letter is upper-cased when no letter stands before it and
\* lower-cased when one does
TitleChar(s, i) ==
    IF Char(s, i - 1) \in (UpperSet \cup LowerSet)
    THEN LowerChar(Char(s, i))
    ELSE UpperChar(Char(s, i))

\* the concatenation of the strings of a sequence
RECURSIVE Concat(_)
Concat(parts) == IF Len(parts) = 0 THEN "" ELSE parts[1] \o Concat(Tail(parts))

Title(s) == Concat([i \in 1..Len(s) |-> TitleChar(s, i)])

\* str.replace(c, '') for a character c
Remove(s, c) ==
    Concat([i \in 1..Len(s) |-> IF Char(s, i) = c THEN "" ELSE Char(s, i)])

\* str(n) for an int n >= 0
RECURSIVE Str(_)
Str(n) ==
    IF n < 10 THEN Char(Digits, n + 1)
    ELSE Str(n \div 10) \o Char(Digits, (n % 10) + 1)

\* str.startswith(p)
StartsWith(s, p) == Len(s) >= Len(p) /\ SubSeq(s, 1, Len(p)) = p

\* str.endswith(p)
EndsWith(s, p) ==
    Len(s) >= Len(p) /\ SubSeq(s, Len(s) - Len(p) + 1, Len(s)) = p

\* s[:n]
Prefix(s, n) == SubSeq(s, 1, IF n < Len(s) THEN n ELSE Len(s))

\* the 1-based places where p occurs in s
Occurrences(s, p) ==
    {i \in 1..(Len(s) - Len(p) + 1) : SubSeq(s, i, i + Len(p) - 1) = p}

\* p in s, for strings
Contains(s, p) == Occurrences(s, p) # {}

\* str.rfind(c) + 1: the last place of p in s, 0 when there is none
RFind(s, p) ==
    IF Occurrences(s, p) = {} THEN 0
    ELSE CHOOSE i \in Occurrences(s, p) : \A j \in Occurrences(s, p) : j <= i

\* s[:n].count('\n'), n a 0-based end as in Python (n past the end: all of s)
CountNewlines(s, n) == Cardinality({i \in 1..Len(s) : i <= n /\ Char(s, i) = "\n"})

\* sep.join(parts)
RECURSIVE Join(_, _)
Join(sep, parts) ==
    IF Len(parts) = 0 THEN ""
    ELSE IF Len(parts) = 1 THEN parts[1]
    ELSE parts[1] \o sep \o Join(sep, Tail(parts))

\* the concatenation of a sequence of lists
RECURSIVE Flatten(_)
Flatten(ss) == IF Len(ss) = 0 THEN <<>> ELSE ss[1] \o Flatten(Tail(ss))

-----------------------------------------------------------------------------
(* pathlib.Path: name, suffix, stem. *)

\* Path(p).name: the text after the last '/'
PathName(p) == SubSeq(p, RFind(p, "/") + 1, Len(p))

\* Path(p).suffix: from the last '.' of the name, unless that dot is the
\* first or the last character of the name
PathSuffix(p) ==
    LET name == PathName(p)
        i == RFind(name, ".")
    IN  IF 1 < i /\ i < Len(name) THEN SubSeq(name, i, Len(name)) ELSE ""

\* Path(p).stem: the name without its suffix
PathStem(p) ==
    LET name == PathName(p)
        i == RFind(name, ".")
    IN  IF 1 < i /\ i < Len(name) THEN SubSeq(name, 1, i - 1) ELSE name

-----------------------------------------------------------------------------
(* detect_language *)

lang_map ==
    { <<".py", "python">>, <<".js", "javascript">>, <<".ts", "typescript">>,
      <<".java", "java">>, <<".cpp", "cpp">>, <<".c", "c">>,
      <<".cs", "csharp">>, <<".rb", "ruby">>, <<".go", "go">>,
      <<".rs", "rust">> }

detect_language(file_path) ==
    LET ext == Lower(PathSuffix(file_path))
    IN  IF \E e \in lang_map : e[1] = ext
        THEN (CHOOSE e \in lang_map : e[1] = ext)[2]
        ELSE "unknown"

-----------------------------------------------------------------------------
(* analyze_python_code.                                                    *)
(*                                                                         *)
(* A Python source is the result of ast.parse on it: either a syntax error *)
(* or the sequence of its definition nodes in source order.  Node i stands *)
(* on line i; parent is the index of the definition whose body holds it    *)
(* directly, 0 for the module.  posonlyargs and args are the two lists of  *)
(* ast.arguments that hold the positional parameters (before and after a   *)
(* '/'); doc is ast.get_docstring of the node.                             *)

Unset == [unset |-> TRUE]

PyDef(kind, name, posonlyargs, args, doc) ==
    [kind |-> kind, name |-> name, posonlyargs |-> posonlyargs,
     args |-> args, doc |-> doc]

IsFunctionNode(n) == n.kind \in {"FunctionDef", "AsyncFunctionDef"}

\* the indices of the definitions directly in the body of p, in source order
Children(nodes, p) ==
    SelectSeq([i \in 1..Len(nodes) |-> i], LAMBDA j : nodes[j].parent = p)

\* ast.walk: breadth first, a node's children appended to the queue
RECURSIVE WalkFrom(_, _)
WalkFrom(nodes, queue) ==
    IF Len(queue) = 0 THEN <<>>
    ELSE <<Head(queue)>>
         \o WalkFrom(nodes, Tail(queue) \o Children(nodes, Head(queue)))

Walk(nodes) == WalkFrom(nodes, Children(nodes, 0))

\* [arg.arg for arg in node.args.args if arg.arg != 'self']
ArgNames(n) == SelectSeq(n.args, LAMBDA a : a # "self")

\* not node.name.startswith('_')
FunctionIncluded(name) == ~StartsWith(name, "_")

MethodIncluded_NoDunder(name) == ~StartsWith(name, "_")

\* not item.name.startswith('_') or item.name.startswith('__')
MethodIncluded(name) ==
    ~StartsWith(name, "_") \/ StartsWith(name, "__")

\* func_info / method_info: the "async" key exists only for an async def
SignatureOf(nodes, i) ==
    LET n == nodes[i]
        base == [name |-> n.name, line |-> i, args |-> ArgNames(n),
                 docstring |-> n.doc, returns |-> None]
    IN  IF n.kind = "AsyncFunctionDef"
        THEN [name |-> base.name, line |-> base.line, args |-> base.args,
              docstring |-> base.docstring, returns |-> base.returns,
              async |-> TRUE]
        ELSE base

\* class_methods: the function entries of node.body that pass the method rule
ClassMethods(nodes, c) ==
    LET items == SelectSeq(Children(nodes, c),
                           LAMBDA j : IsFunctionNode(nodes[j])
                                      /\ MethodIncluded(nodes[j].name))
    IN  [k \in 1..Len(items) |-> SignatureOf(nodes, items[k])]

ClassInfo(nodes, c) ==
    [name |-> nodes[c].name, line |-> c, methods |-> ClassMethods(nodes, c),
     docstring |-> nodes[c].doc]

analyze_python_code(file_path, src) ==
    IF ~src.syntax_ok
    THEN [error |-> "Syntax error in Python file"]
    ELSE
      LET nodes == src.nodes
          order == Walk(nodes)
          fs == SelectSeq(order, LAMBDA j : IsFunctionNode(nodes[j])
                                            /\ FunctionIncluded(nodes[j].name))
          cs == SelectSeq(order, LAMBDA j : nodes[j].kind = "ClassDef")
      IN  [functions |-> [k \in 1..Len(fs) |-> SignatureOf(nodes, fs[k])],
           classes |-> [k \in 1..Len(cs) |-> ClassInfo(nodes, cs[k])],
           language |-> "python",
           file_path |-> file_path]

HasError(model) == "error" \in DOMAIN model

-----------------------------------------------------------------------------
(* Python sources of the analysis. *)

PyDefs ==
    { PyDef("FunctionDef", "add", <<>>, <<"a", "b">>, None),
      PyDef("FunctionDef", "add", <<"a">>, <<"b">>, None),
      PyDef("FunctionDef", "increment", <<>>, <<"self">>, None),
      PyDef("FunctionDef", "_reset", <<>>, <<"self">>, None),
      PyDef("FunctionDef", "__init__", <<>>, <<"self", "a">>, None),
      PyDef("AsyncFunctionDef", "greet", <<>>, <<"self", "a">>, None),
      PyDef("AsyncFunctionDef", "_reset", <<>>, <<>>, None),
      PyDef("ClassDef", "Counter", <<>>, <<>>, None) }

Place(d, p) ==
    [kind |-> d.kind, name |-> d.name, parent |-> p,
     posonlyargs |-> d.posonlyargs, args |-> d.args, doc |-> d.doc]

\* definition a is definition i or encloses it (0 is the module)
RECURSIVE Encloses(_, _, _)
Encloses(q, a, i) == a = i \/ (i # 0 /\ Encloses(q, a, q[i]))

\* the ways to nest k definitions written one after the other: each is in the
\* body of the module, of the definition before it or of one that encloses
\* that one
ParentMaps(k) ==
    {q \in [1..k -> 0..(k-1)] :
        \A i \in 1..k : q[i] < i /\ (i > 1 => Encloses(q, q[i], i - 1))}

PyTree(ds, ps) == [i \in 1..Len(ds) |-> Place(ds[i], ps[i])]

PySource(nodes) == [kind |-> "python", syntax_ok |-> TRUE, nodes |-> nodes]
PySyntaxError == [kind |-> "python", syntax_ok |-> FALSE, nodes |-> <<>>]

\* src is a Python source of at most n definitions, or one that does not parse
IsPySource(src, n) ==
    \/ src = PySyntaxError
    \/ \E k \in 0..n : \E ds \in [1..k -> PyDefs] : \E ps \in ParentMaps(k) :
          src = PySource(PyTree(ds, ps))

-----------------------------------------------------------------------------
(* Regular expressions of analyze_javascript_code.                         *)
(*                                                                         *)
(* A pattern is a sequence of elements; re.finditer yields its leftmost     *)
(* non-overlapping matches.  In each pattern of the code a repetition is   *)
(* followed by an element that none of the repeated characters can start,  *)
(* so the greedy match is the only one and no backtracking is modelled.    *)
(* Positions are 1-based; end is the place after the match.                *)

\* [a-zA-Z_$], [a-zA-Z0-9_$], \w and \s (ASCII)
Letters == Upper \o Lowercase
IdentStart == CharsOf(Letters \o "_$")
IdentChars == CharsOf(Letters \o Digits \o "_$")
WordChars == CharsOf(Letters \o Digits \o "_")
Spaces == CharsOf(" \t\n\r\f")

Lit(v) == [t |-> "lit", v |-> v]
Sp0 == [t |-> "sp0"]
Sp1 == [t |-> "sp1"]
Ident == [t |-> "ident"]
Word1 == [t |-> "word1"]
NotClose0 == [t |-> "notclose0"]
WordBoundary == [t |-> "wb"]

NoMatch == [ok |-> FALSE]

\* the first place at or after i whose character is not in set
RECURSIVE RunEnd(_, _, _)
RunEnd(s, i, set) ==
    IF Char(s, i) \in set THEN RunEnd(s, i + 1, set) ELSE i

\* [^)]*: the first place at or after i that holds ')' or is past the end
RECURSIVE NotCloseEnd(_, _)
NotCloseEnd(s, i) ==
    IF i <= Len(s) /\ Char(s, i) # ")" THEN NotCloseEnd(s, i + 1) ELSE i

\* the match of elements k.. of pat at place i of s, g1 the captured group
RECURSIVE MatchFrom(_, _, _, _, _)
MatchFrom(pat, k, s, i, g1) ==
    IF k > Len(pat) THEN [ok |-> TRUE, end |-> i, g1 |-> g1]
    ELSE
      LET e == pat[k] IN
      CASE e.t = "lit" ->
             IF i + Len(e.v) - 1 <= Len(s) /\ SubSeq(s, i, i + Len(e.v) - 1) = e.v
             THEN MatchFrom(pat, k + 1, s, i + Len(e.v), g1)
             ELSE NoMatch
        [] e.t = "sp0" -> MatchFrom(pat, k + 1, s, RunEnd(s, i, Spaces), g1)
        [] e.t = "sp1" ->
             IF Char(s, i) \in Spaces
             THEN MatchFrom(pat, k + 1, s, RunEnd(s, i, Spaces), g1)
             ELSE NoMatch
        [] e.t = "ident" ->
             IF Char(s, i) \in IdentStart
             THEN LET j == RunEnd(s, i, IdentChars)
                  IN  MatchFrom(pat, k + 1, s, j, SubSeq(s, i, j - 1))
             ELSE NoMatch
        [] e.t = "word1" ->
             IF Char(s, i) \in WordChars
             THEN MatchFrom(pat, k + 1, s, RunEnd(s, i, WordChars), g1)
             ELSE NoMatch
        [] e.t = "notclose0" ->
             MatchFrom(pat, k + 1, s, NotCloseEnd(s, i), g1)
        [] e.t = "wb" ->
             IF (Char(s, i - 1) \in WordChars) # (Char(s, i) \in WordChars)
             THEN MatchFrom(pat, k + 1, s, i, g1)
             ELSE NoMatch

MatchAt(pat, s, i) == MatchFrom(pat, 1, s, i, "")

\* the least place of starts that is at or after pos, 0 when there is none
NextStart(starts, pos) ==
    LET later == {i \in starts : i >= pos}
    IN  IF later = {} THEN 0
        ELSE CHOOSE i \in later : \A j \in later : i <= j

\* re.finditer: the leftmost match, then the leftmost one from its end on.
\* starts holds every place where pat matches (a match at a place does not
\* depend on where the search began).
RECURSIVE FindIterFrom(_, _, _, _)
FindIterFrom(pat, s, starts, pos) ==
    LET i == NextStart(starts, pos)
    IN  IF i = 0 THEN <<>>
        ELSE LET m == MatchAt(pat, s, i)
             IN  <<[start |-> i, end |-> m.end, g1 |-> m.g1]>>
                 \o FindIterFrom(pat, s, starts, m.end)

FindIter(pat, s) ==
    FindIterFrom(pat, s, {i \in 1..Len(s) : MatchAt(pat, s, i).ok}, 1)

-----------------------------------------------------------------------------
(* analyze_javascript_code *)

\* keyword\s+(name)\s*=\s*function\s*\([^)]*\)
BindFunction(keyword) ==
    <<Lit(keyword), Sp1, Ident, Sp0, Lit("="), Sp0, Lit("function"), Sp0,
      Lit("("), NotClose0, Lit(")")>>

\* keyword\s+(name)\s*=\s*\([^)]*\)\s*=>
BindArrow(keyword) ==
    <<Lit(keyword), Sp1, Ident, Sp0, Lit("="), Sp0, Lit("("), NotClose0,
      Lit(")"), Sp0, Lit("=>")>>

func_patterns ==
    << <<Lit("function"), Sp1, Ident, Sp0, Lit("("), NotClose0, Lit(")")>>,
       BindFunction("const"),
       BindArrow("const"),
       <<Lit("const"), Sp1, Ident, Sp0, Lit("="), Sp0, Word1, Sp0, Lit("=>")>>,
       BindFunction("let"),
       BindArrow("let"),
       BindFunction("var"),
       BindArrow("var") >>

class_pattern == <<Lit("class"), Sp1, Ident>>

\* the pattern of line 300: \b(name)\s*\([^)]*\)\s*{
method_pattern ==
    <<WordBoundary, Ident, Sp0, Lit("("), NotClose0, Lit(")"), Sp0, Lit("{")>>

NotUserDefined ==
    {"require", "console", "Math", "Array", "Object", "String", "Number",
     "Date", "Promise"}

\* content[:n].count('\n') + 1, n a 0-based offset
LineOf(text, n) == CountNewlines(text, n) + 1

JsArgs_Declared(text, m) ==
    LET matched == SubSeq(text, m.start, m.end - 1)
        opens == Occurrences(matched, "(")
        open == CHOOSE i \in opens : \A j \in opens : i <= j
        inner == SubSeq(matched, open + 1, RFind(matched, ")") - 1)
    IN  IF opens = {} \/ inner = "" THEN <<>> ELSE <<inner>>

\* 'args': [] (lines 273, 310): the matched text is not consulted
JsArgs(text, m) == <<>>

JsDocstring(m) == None

JsEntry(text, name, line, m) ==
    [name |-> name, line |-> line, args |-> JsArgs(text, m),
     docstring |-> JsDocstring(m)]

\* the entries one pattern adds to functions
PatternFunctions(pat, text) ==
    LET ms == SelectSeq(FindIter(pat, text), LAMBDA m : m.g1 \notin NotUserDefined)
    IN  [k \in 1..Len(ms) |-> JsEntry(text, ms[k].g1, LineOf(text, ms[k].start - 1), ms[k])]

\* lines 287-297: the 0-based place in class_content of the first '}' that
\* brings brace_count back to 0, and 0 when there is none.  braces holds the
\* places of the '{' and '}' of class_content in order: the loop does nothing
\* at any other character.
RECURSIVE ScanBraces(_, _, _, _)
ScanBraces(cc, braces, k, brace_count) ==
    IF k > Len(braces) THEN 0
    ELSE IF Char(cc, braces[k]) = "{"
         THEN ScanBraces(cc, braces, k + 1, brace_count + 1)
    ELSE IF brace_count - 1 = 0 THEN braces[k] - 1
    ELSE ScanBraces(cc, braces, k + 1, brace_count - 1)

BracePlaces(cc) ==
    SelectSeq([i \in 1..Len(cc) |-> i], LAMBDA i : Char(cc, i) \in {"{", "}"})

ClassBody_ToEnd(text, m) == SubSeq(text, m.end, Len(text))

\* class_content[:class_end_pos] for the class matched by m
ClassBody(text, m) ==
    LET class_content == SubSeq(text, m.end, Len(text))
        class_end_pos == ScanBraces(class_content, BracePlaces(class_content), 1, 0)
    IN  Prefix(class_content, class_end_pos)

\* line 306: match.start() + class_content_start + m_match.start()
MethodOffset(m, mm) == (m.start - 1) + (m.end - 1) + (mm.start - 1)

JsMethods(text, m) ==
    LET ms == SelectSeq(FindIter(method_pattern, ClassBody(text, m)),
                        LAMBDA mm : mm.g1 \notin {"constructor"})
    IN  [k \in 1..Len(ms) |->
           JsEntry(ClassBody(text, m), ms[k].g1,
                   LineOf(text, MethodOffset(m, ms[k])), ms[k])]

JsClasses(text) ==
    LET ms == FindIter(class_pattern, text)
    IN  [k \in 1..Len(ms) |->
           [name |-> ms[k].g1, line |-> LineOf(text, ms[k].start - 1),
            methods |-> JsMethods(text, ms[k]), docstring |-> None]]

analyze_javascript_code(file_path, src) ==
    [functions |-> Flatten([p \in 1..Len(func_patterns) |->
                              PatternFunctions(func_patterns[p], src.text)]),
     classes |-> JsClasses(src.text),
     language |-> "javascript",
     file_path |-> file_path]

-----------------------------------------------------------------------------
(* JavaScript sources of the analysis: up to MaxChunks pieces of text. *)

JsChunks ==
    { "function greet(name) {}\n",
      "const add = function(a, b) {};\n",
      "const add = (a, b) => a + b;\n",
      "const greet = name => name;\n",
      "let add = function (a) {};\n",
      "let add = (a) => a;\n",
      "var add = function() {};\n",
      "var greet = (name) =>\n  name;\n",
      "function require(name) {}\n",
      "class Counter {\n  constructor(n) {}\n  increment(by) {\n    if (by) { }\n  }\n}\n",
      "class A {\n",
      "  greet(name) {}\n",
      "}\n",
      "\n" }

JsSource(text) == [kind |-> "javascript", text |-> text]

IsJsSource(src, n) ==
    \E k \in 0..n : \E cs \in [1..k -> JsChunks] : src = JsSource(Join("", cs))

-----------------------------------------------------------------------------
(* Argument placeholder synthesis: lines 128-136, 161-169 and 207-215 hold  *)
(* the same chain; only the boolean literal differs.                       *)

PlaceholderFor_Substring(arg, true_literal) ==
    IF \E w \in {"name", "title", "text"} : Contains(Lower(arg), w)
    THEN "'test_" \o arg \o "'"
    ELSE IF \E w \in {"count", "size"} : Contains(Lower(arg), w)
    THEN "1"
    ELSE IF \E w \in {"flag", "bool"} : Contains(Lower(arg), w)
    THEN true_literal
    ELSE "'mock_" \o arg \o "'"

PlaceholderFor(arg, true_literal) ==
    IF Lower(arg) \in {"name", "title", "text", "str"}
    THEN "'test_" \o arg \o "'"
    ELSE IF Lower(arg) \in {"num", "count", "size", "int"}
    THEN "1"
    ELSE IF Lower(arg) \in {"flag", "enabled", "bool"}
    THEN true_literal
    ELSE "'mock_" \o arg \o "'"

\* args_str = ", ".join(args_list)
ArgsStr(args, true_literal) ==
    Join(", ", [k \in 1..Len(args) |-> PlaceholderFor(args[k], true_literal)])

-----------------------------------------------------------------------------
(* generate_python_test_content *)

PyFunctionTests_EdgeInvokes(original_module, func) ==
    << "    def test_" \o func.name \o "_basic(self):",
       "        # Test basic functionality of " \o func.name,
       "        # TODO: Implement actual test for " \o func.name,
       "        # result = " \o original_module \o "." \o func.name
          \o "(" \o ArgsStr(func.args, "True") \o ")",
       "        # self.assertIsNotNone(result)",
       "",
       "    def test_" \o func.name \o "_edge_cases(self):",
       "        # Test edge cases for " \o func.name,
       "        # result = " \o original_module \o "." \o func.name
          \o "(" \o ArgsStr(func.args, "True") \o ")",
       "" >>

PyFunctionTests(original_module, func) ==
    << "    def test_" \o func.name \o "_basic(self):",
       "        # Test basic functionality of " \o func.name,
       "        # TODO: Implement actual test for " \o func.name,
       IF Len(func.args) > 0
       THEN "        # result = " \o original_module \o "." \o func.name
            \o "(" \o ArgsStr(func.args, "True") \o ")"
       ELSE "        # result = " \o original_module \o "." \o func.name \o "()",
       "        # self.assertIsNotNone(result)",
       "",
       "    def test_" \o func.name \o "_edge_cases(self):",
       "        # Test edge cases for " \o func.name,
       "        # TODO: Add edge case tests for " \o func.name,
       "" >>

PyMethodTests(original_module, cls, method) ==
    << "    def test_" \o Lower(cls.name) \o "_" \o method.name \o "_basic(self):",
       "        # Test basic functionality of " \o cls.name \o "." \o method.name,
       "        instance = " \o original_module \o "." \o cls.name \o "()",
       IF Len(method.args) > 0
       THEN "        # result = instance." \o method.name
            \o "(" \o ArgsStr(method.args, "True") \o ")"
       ELSE "        # result = instance." \o method.name \o "()",
       "        # self.assertIsNotNone(result)",
       "" >>

PyClassTests(original_module, cls) ==
    Flatten([k \in 1..Len(cls.methods) |->
               PyMethodTests(original_module, cls, cls.methods[k])])

generate_python_test_content(model) ==
    LET original_module == PathStem(model.file_path)
        test_class_name == "Test" \o Remove(Title(original_module), "_")
        lines ==
          << "import unittest",
             "from unittest.mock import Mock, patch",
             "",
             "import " \o original_module,
             "",
             "class " \o test_class_name \o "(unittest.TestCase):",
             "    def setUp(self):",
             "        # Setup code for tests",
             "        pass",
             "" >>
          \o Flatten([k \in 1..Len(model.functions) |->
                        PyFunctionTests(original_module, model.functions[k])])
          \o Flatten([k \in 1..Len(model.classes) |->
                        PyClassTests(original_module, model.classes[k])])
          \o << "", "if __name__ == '__main__':", "    unittest.main()" >>
    IN  Join("\n", lines)

-----------------------------------------------------------------------------
(* generate_javascript_test_content *)

JsFunctionTests(func) ==
    << "  describe('" \o func.name \o "', () => {",
       "    test('should execute " \o func.name \o " successfully', () => {",
       "      // TODO: Implement actual test for " \o func.name,
       IF Len(func.args) > 0
       THEN "      // const result = " \o func.name
            \o "(" \o ArgsStr(func.args, "true") \o ");"
       ELSE "      // const result = " \o func.name \o "();",
       "      // expect(result).toBeDefined();",
       "    });",
       "",
       "    test('should handle edge cases for " \o func.name \o "', () => {",
       "      // TODO: Add edge case tests for " \o func.name,
       "    });",
       "  });",
       "" >>

JsRendered_WithClasses(model) ==
    model.functions
    \o Flatten([k \in 1..Len(model.classes) |-> model.classes[k].methods])

\* the entries of the Code Model that line 200 iterates over
JsRendered(model) == model.functions

generate_javascript_test_content(model) ==
    LET module_name == PathStem(model.file_path)
        names == [k \in 1..Len(model.functions) |-> model.functions[k].name]
        lines ==
          << "const { " \o Join(", ", names) \o " } = require('./"
               \o module_name \o "');",
             "",
             "describe('" \o module_name \o "', () => {" >>
          \o Flatten([k \in 1..Len(JsRendered(model)) |->
                        JsFunctionTests(JsRendered(model)[k])])
          \o << "});" >>
    IN  Join("\n", lines)

-----------------------------------------------------------------------------
(* get_test_filename *)

get_test_filename(file, lang) ==
    LET stem == PathStem(file)
    IN  IF lang = "python" THEN "test_" \o stem \o ".py"
        ELSE IF lang \in {"javascript", "typescript"} THEN stem \o ".test.js"
        ELSE "test_" \o stem \o "." \o PathSuffix(file)

-----------------------------------------------------------------------------
(* generate_test_report *)

\* the truncation budget of the docstring excerpt
DocBudget == 100

Ellipsis_AtBudget(doc) == IF Len(doc) >= DocBudget THEN "..." ELSE ""

\* '...' if len(docstring) > 100 else ''
Ellipsis(doc) == IF Len(doc) > DocBudget THEN "..." ELSE ""

\* the Description line of an entry, when its docstring is truthy
DescriptionLines(entry) ==
    IF Truthy(entry.docstring)
    THEN << "  - Description: " \o Prefix(entry.docstring.val, DocBudget)
              \o Ellipsis(entry.docstring.val) >>
    ELSE <<>>

ReportFunction(func) ==
    << "- **" \o func.name \o "** (Line " \o Str(func.line) \o ")" >>
    \o DescriptionLines(func)
    \o << "  - Arguments: " \o Str(Len(func.args)) \o " ("
            \o (IF Len(func.args) > 0 THEN Join(", ", func.args) ELSE "none")
            \o ")",
          "" >>

ReportClass(cls) ==
    << "- **" \o cls.name \o "** (Line " \o Str(cls.line) \o ")" >>
    \o DescriptionLines(cls)
    \o << "  - Methods: " \o Str(Len(cls.methods)) >>
    \o [k \in 1..Len(cls.methods) |->
          "    - " \o cls.methods[k].name
          \o " (Line " \o Str(cls.methods[k].line) \o ")"]
    \o << "" >>

\* The three status lines hold one pictograph each in the source (U+2705,
\* U+26A0 U+FE0F, U+274C) and two lines hold grave accents (U+0060); each is
\* written here by its code point.
generate_test_report(model) ==
    LET lines ==
          << "# Test Report for " \o PathName(model.file_path),
             "",
             "This report details the test coverage for the source file: <U+0060>"
               \o model.file_path \o "<U+0060>",
             "",
             "## Source Code Analysis",
             "- Language: " \o model.language,
             "- Total Functions: " \o Str(Len(model.functions)),
             "- Total Classes: " \o Str(Len(model.classes)),
             "" >>
          \o (IF Len(model.functions) > 0
              THEN << "## Functions Analyzed", "" >>
                   \o Flatten([k \in 1..Len(model.functions) |->
                                 ReportFunction(model.functions[k])])
              ELSE <<>>)
          \o (IF Len(model.classes) > 0
              THEN << "## Classes Analyzed", "" >>
                   \o Flatten([k \in 1..Len(model.classes) |->
                                 ReportClass(model.classes[k])])
              ELSE <<>>)
          \o << "## Test Coverage Status",
                "- Basic tests: <U+2705> Generated",
                "- Edge case tests: <U+26A0><U+FE0F> Manual implementation needed",
                "- Integration tests: <U+274C> Not implemented",
                "",
                "## Next Steps",
                "1. Review the generated tests",
                "2. Implement the actual test logic in the TODO sections",
                "3. Add more specific assertions based on expected behavior",
                "4. Run the tests to validate functionality",
                "",
                "## Test File Location",
                "The test file has been generated as: <U+0060>"
                  \o get_test_filename(model.file_path, model.language) \o "<U+0060>" >>
    IN  Join("\n", lines)

-----------------------------------------------------------------------------
(* Steps of main(), and of the functions it calls. *)

\* an exit through sys.exit(1)
Exit1 ==
    /\ pc' = "exit"
    /\ exit_status' = 1

\* open(name, 'w') and write(text): the file is created or replaced
Written(fs, name, text) ==
    [n \in DOMAIN fs \cup {name} |-> IF n = name THEN text ELSE fs[n]]

Supported == {"python", "javascript", "typescript"}

\* lines 396-398: no path argument
ExitUsage ==
    /\ pc = "start"
    /\ Len(argv) < 1
    /\ Exit1
    /\ UNCHANGED <<argv, source_file, exists, content, language, code_analysis,
                   test_content, report_content, test_filename, files>>

\* line 400
TakeArgument ==
    /\ pc = "start"
    /\ Len(argv) >= 1
    /\ source_file' = argv[1]
    /\ pc' = "check_exists"
    /\ UNCHANGED <<argv, exists, content, language, code_analysis,
                   test_content, report_content, test_filename, files,
                   exit_status>>

\* lines 402-404
ExitMissing ==
    /\ pc = "check_exists"
    /\ ~exists
    /\ Exit1
    /\ UNCHANGED <<argv, source_file, exists, content, language, code_analysis,
                   test_content, report_content, test_filename, files>>

\* line 406
DetectLanguage ==
    /\ pc = "check_exists"
    /\ exists
    /\ language' = detect_language(source_file)
    /\ pc' = "analyze"
    /\ UNCHANGED <<argv, source_file, exists, content, code_analysis,
                   test_content, report_content, test_filename, files,
                   exit_status>>

\* lines 412-414
ExitUnsupported ==
    /\ pc = "analyze"
    /\ language \notin Supported
    /\ Exit1
    /\ UNCHANGED <<argv, source_file, exists, content, language, code_analysis,
                   test_content, report_content, test_filename, files>>

\* line 409: code_analysis = analyze_python_code(source_file)
AnalyzePython ==
    /\ pc = "analyze"
    /\ language = "python"
    /\ code_analysis' = analyze_python_code(source_file, content)
    /\ pc' = "check_error"
    /\ UNCHANGED <<argv, source_file, exists, content, language, test_content,
                   report_content, test_filename, files, exit_status>>

\* line 411: code_analysis = analyze_javascript_code(source_file)
AnalyzeJavascript ==
    /\ pc = "analyze"
    /\ language \in {"javascript", "typescript"}
    /\ code_analysis' = analyze_javascript_code(source_file, content)
    /\ pc' = "check_error"
    /\ UNCHANGED <<argv, source_file, exists, content, language, test_content,
                   report_content, test_filename, files, exit_status>>

ExitAnalysisError_Continue ==
    /\ pc = "check_error"
    /\ HasError(code_analysis)
    /\ pc' = "generate"
    /\ UNCHANGED <<argv, source_file, exists, content, language, code_analysis,
                   test_content, report_content, test_filename, files,
                   exit_status>>

\* lines 416-418
ExitAnalysisError ==
    /\ pc = "check_error"
    /\ HasError(code_analysis)
    /\ Exit1
    /\ UNCHANGED <<argv, source_file, exists, content, language, code_analysis,
                   test_content, report_content, test_filename, files>>

\* line 416, no error
AnalysisOk ==
    /\ pc = "check_error"
    /\ ~HasError(code_analysis)
    /\ pc' = "generate"
    /\ UNCHANGED <<argv, source_file, exists, content, language, code_analysis,
                   test_content, report_content, test_filename, files,
                   exit_status>>

\* lines 421-422
GeneratePython ==
    /\ pc = "generate"
    /\ language = "python"
    /\ test_content' = generate_python_test_content(code_analysis)
    /\ pc' = "name_test_file"
    /\ UNCHANGED <<argv, source_file, exists, content, language, code_analysis,
                   report_content, test_filename, files, exit_status>>

\* lines 423-424 (the else of lines 425-427 cannot be reached: line 414 has
\* left for every other language)
GenerateJavascript ==
    /\ pc = "generate"
    /\ language \in {"javascript", "typescript"}
    /\ test_content' = generate_javascript_test_content(code_analysis)
    /\ pc' = "name_test_file"
    /\ UNCHANGED <<argv, source_file, exists, content, language, code_analysis,
                   report_content, test_filename, files, exit_status>>

\* line 430
NameTestFile ==
    /\ pc = "name_test_file"
    /\ test_filename' = get_test_filename(source_file, language)
    /\ pc' = "write_test"
    /\ UNCHANGED <<argv, source_file, exists, content, language, code_analysis,
                   test_content, report_content, files, exit_status>>

\* lines 431-432
WriteTestFile ==
    /\ pc = "write_test"
    /\ files' = Written(files, test_filename, test_content)
    /\ pc' = "report"
    /\ UNCHANGED <<argv, source_file, exists, content, language, code_analysis,
                   test_content, report_content, test_filename, exit_status>>

\* line 435
GenerateReport ==
    /\ pc = "report"
    /\ report_content' = generate_test_report(code_analysis)
    /\ pc' = "write_report"
    /\ UNCHANGED <<argv, source_file, exists, content, language, code_analysis,
                   test_content, test_filename, files, exit_status>>

\* lines 436-438
WriteReport ==
    /\ pc = "write_report"
    /\ files' = Written(files, "test-report.md", report_content)
    /\ pc' = "summary"
    /\ UNCHANGED <<argv, source_file, exists, content, language, code_analysis,
                   test_content, report_content, test_filename, exit_status>>

\* lines 440-443: the four summary lines are printed and main returns
Finish ==
    /\ pc = "summary"
    /\ pc' = "exit"
    /\ exit_status' = 0
    /\ UNCHANGED <<argv, source_file, exists, content, language, code_analysis,
                   test_content, report_content, test_filename, files>>

-----------------------------------------------------------------------------
(* main(): one invocation, from the command line to the exit status. *)

NoFile == [kind |-> "none"]
OtherSource == [kind |-> "other"]

SamplePySource ==
    PySource(<< Place(PyDef("FunctionDef", "add", <<>>, <<"a", "b">>,
                            Some("Add two numbers.")), 0),
                Place(PyDef("ClassDef", "Counter", <<>>, <<>>, Some("")), 0),
                Place(PyDef("FunctionDef", "increment", <<>>, <<"self", "count">>,
                            None), 2),
                Place(PyDef("FunctionDef", "_reset", <<>>, <<"self">>, None), 2) >>)

MainFiles == {"m.py", "d/my_mod.PY", "m.js", "m.ts", "m.java", "notes", ".py"}

\* what the file at path holds, when it exists
IsContentOf(src, path) ==
    IF detect_language(path) = "python"
    THEN src = SamplePySource \/ IsPySource(src, 1)
    ELSE IF detect_language(path) \in {"javascript", "typescript"}
    THEN IsJsSource(src, 1)
    ELSE src = OtherSource

Init ==
    /\ pc = "start"
    /\ \/ /\ argv = <<>>
          /\ exists = FALSE
          /\ content = NoFile
       \/ \E path \in MainFiles :
            /\ argv = <<path>>
            /\ \/ exists = FALSE /\ content = NoFile
               \/ exists = TRUE /\ IsContentOf(content, path)
    /\ source_file = ""
    /\ language = ""
    /\ code_analysis = Unset
    /\ test_content = ""
    /\ report_content = ""
    /\ test_filename = ""
    /\ files = <<>>
    /\ exit_status = -1

Next ==
    \/ ExitUsage
    \/ TakeArgument
    \/ ExitMissing
    \/ DetectLanguage
    \/ AnalyzePython
    \/ AnalyzeJavascript
    \/ ExitUnsupported
    \/ ExitAnalysisError
    \/ AnalysisOk
    \/ GeneratePython
    \/ GenerateJavascript
    \/ NameTestFile
    \/ WriteTestFile
    \/ GenerateReport
    \/ WriteReport
    \/ Finish

Spec == Init /\ [][Next]_vars

\* main() runs to its end: no step waits on anything
FairSpec == Spec /\ WF_vars(Next)

\* the file named by argv cannot be turned into tests: it is missing, its
\* extension is of no supported language, or it is Python that does not parse
Failure ==
    /\ Len(argv) >= 1
    /\ \/ ~exists
       \/ detect_language(argv[1]) \notin {"python", "javascript", "typescript"}
       \/ (detect_language(argv[1]) = "python" /\ ~content.syntax_ok)

\* C4: in each of the three failure classes (missing path, unsupported
\* language, Python syntax error) main() ends with a non-zero exit status and
\* has written neither file; both files are written only after classification
\* and extraction succeeded, and no partial model reaches a generator.
C4_FailuresWriteNothing ==
    /\ Failure =>
         /\ DOMAIN files = {}
         /\ pc \notin {"generate", "name_test_file", "write_test", "report",
                       "write_report", "summary"}
         /\ pc = "exit" => exit_status = 1
         /\ pc # "exit" => ENABLED Next
    /\ (DOMAIN files # {} \/ test_content # "" \/ report_content # ""
          \/ pc \in {"generate", "name_test_file", "write_test", "report",
                     "write_report", "summary"}) =>
         /\ exists
         /\ language \in {"python", "javascript", "typescript"}
         /\ DOMAIN code_analysis
              = {"functions", "classes", "language", "file_path"}
    /\ "test-report.md" \in DOMAIN files => test_filename \in DOMAIN files

\* C4 witness: a Python file with a syntax error has been analysed and main()
\* has left with status 1 and no file written.
C4_Witness ==
    /\ pc = "exit"
    /\ exit_status = 1
    /\ exists
    /\ language = "python"
    /\ content = PySyntaxError
    /\ "error" \in DOMAIN code_analysis
    /\ DOMAIN files = {}

-----------------------------------------------------------------------------
(* The tree-based extractor on its own: every Python source, analysed. *)

InitAnalyzePython ==
    /\ pc = "analyze"
    /\ argv = <<"m.py">>
    /\ source_file = "m.py"
    /\ exists = TRUE
    /\ IsPySource(content, MaxNodes)
    /\ language = "python"
    /\ code_analysis = Unset
    /\ test_content = ""
    /\ report_content = ""
    /\ test_filename = ""
    /\ files = <<>>
    /\ exit_status = -1

NextAnalyzePython == AnalyzePython

SpecAnalyzePython == InitAnalyzePython /\ [][NextAnalyzePython]_vars

PythonAnalysed ==
    /\ pc = "check_error"
    /\ content.kind = "python"
    /\ ~HasError(code_analysis)

\* the entries of list l that record the definition on line i
EntriesFor(l, nodes, i) ==
    {k \in 1..Len(l) : l[k].line = i /\ l[k].name = nodes[i].name}

\* C1: for every class of a valid Python source and every function or async
\* function directly in its body, the method is in the class's methods list
\* if and only if its name does not start with '_' or starts with '__'.
C1_MethodVisibility ==
    PythonAnalysed =>
        LET nodes == content.nodes
            cls == code_analysis.classes
        IN  \A c \in 1..Len(nodes) :
              nodes[c].kind = "ClassDef" =>
                /\ Cardinality(EntriesFor(cls, nodes, c)) = 1
                /\ \A k \in EntriesFor(cls, nodes, c) :
                     \A m \in 1..Len(nodes) :
                       (nodes[m].parent = c /\ IsFunctionNode(nodes[m])) =>
                         LET nm == nodes[m].name
                             dunder == Char(nm, 1) = "_" /\ Char(nm, 2) = "_"
                             private == Char(nm, 1) = "_"
                         IN  (EntriesFor(cls[k].methods, nodes, m) # {})
                               <=> (~private \/ dunder)

\* C1 witness: a class whose dunder method is listed while a single-underscore
\* method of the same class is not.
C1_Witness ==
    /\ PythonAnalysed
    /\ \E k \in 1..Len(code_analysis.classes) :
         LET ms == code_analysis.classes[k].methods
             c == code_analysis.classes[k].line
         IN  /\ \E j \in 1..Len(ms) : ms[j].name = "__init__"
             /\ \E m \in 1..Len(content.nodes) :
                  /\ content.nodes[m].parent = c
                  /\ content.nodes[m].name = "_reset"
                  /\ \A j \in 1..Len(ms) : ms[j].line # m

\* C2: every module-level function or async function whose name does not
\* start with '_' appears exactly once in functions, 'self' never occurs in
\* its args, and all its other declared positional parameter names are kept
\* in declaration order.
C2_FreeFunctionsListed ==
    PythonAnalysed =>
        LET nodes == content.nodes
            fns == code_analysis.functions
        IN  \A i \in 1..Len(nodes) :
              (nodes[i].parent = 0 /\ IsFunctionNode(nodes[i])
                 /\ ~StartsWith(nodes[i].name, "_")) =>
                /\ Cardinality(EntriesFor(fns, nodes, i)) = 1
                /\ \A k \in EntriesFor(fns, nodes, i) :
                     /\ \A j \in 1..Len(fns[k].args) : fns[k].args[j] # "self"
                     /\ fns[k].args =
                          SelectSeq(nodes[i].posonlyargs \o nodes[i].args,
                                    LAMBDA a : a # "self")

\* C3: functions holds free (module-level) callables only: no method of a
\* class body and no function nested in another function appears in it.
C3_FunctionsAreFree ==
    PythonAnalysed =>
        \A k \in 1..Len(code_analysis.functions) :
            content.nodes[code_analysis.functions[k].line].parent = 0

-----------------------------------------------------------------------------
(* The pattern-matched extractor on its own: every JavaScript source. *)

InitAnalyzeJavascript ==
    /\ pc = "analyze"
    /\ argv = <<"m.js">>
    /\ source_file = "m.js"
    /\ exists = TRUE
    /\ IsJsSource(content, MaxChunks)
    /\ language = "javascript"
    /\ code_analysis = Unset
    /\ test_content = ""
    /\ report_content = ""
    /\ test_filename = ""
    /\ files = <<>>
    /\ exit_status = -1

NextAnalyzeJavascript == AnalyzeJavascript

SpecAnalyzeJavascript == InitAnalyzeJavascript /\ [][NextAnalyzeJavascript]_vars

JavascriptAnalysed == pc = "check_error" /\ content.kind = "javascript"

\* C5: every entry of the functions list of analyze_javascript_code has an
\* empty args list and an absent docstring, whatever the parameter count and
\* whichever pattern matched; the source function greet(name) {} yields
\* exactly one free function, greet, with args = [].
C5_JsArgsEmpty ==
    JavascriptAnalysed =>
        /\ \A k \in 1..Len(code_analysis.functions) :
             /\ code_analysis.functions[k].args = <<>>
             /\ code_analysis.functions[k].docstring = None
        /\ content.text = "function greet(name) {}\n" =>
             /\ Len(code_analysis.functions) = 1
             /\ code_analysis.functions[1].name = "greet"
             /\ code_analysis.functions[1].args = <<>>

\* C5 witness: a function declaration of one parameter and an arrow binding
\* of two have been listed, each with no args.
C5_Witness ==
    /\ JavascriptAnalysed
    /\ content.text = "function greet(name) {}\nconst add = (a, b) => a + b;\n"
    /\ Len(code_analysis.functions) = 2
    /\ code_analysis.functions[1].name = "greet"
    /\ code_analysis.functions[2].name = "add"
    /\ code_analysis.functions[2].args = <<>>

\* the class matches of the analysed text, in order
ClassMatches == FindIter(class_pattern, content.text)

\* the method matches the analysis reports for the class matched by m
ReportedMatches(m) ==
    SelectSeq(FindIter(method_pattern, ClassBody(content.text, m)),
              LAMBDA mm : mm.g1 \notin {"constructor"})

\* C11: the line of every reported method of every class is 1 plus the number
\* of line breaks of the file text before the start of the method's match,
\* the match place being translated from the class body to the file
\* (class_content_start + m_match.start()), wherever the class starts.
C11_MethodLines ==
    JavascriptAnalysed =>
        \A k \in 1..Len(code_analysis.classes) :
          LET m == ClassMatches[k]
              mms == ReportedMatches(m)
          IN  \A j \in 1..Len(code_analysis.classes[k].methods) :
                code_analysis.classes[k].methods[j].line
                  = LineOf(content.text, (m.end - 1) + (mms[j].start - 1))

\* the depth after the first i characters of cc: +1 for '{', -1 for '}'
Depth(cc, i) ==
    Cardinality({j \in 1..i : Char(cc, j) = "{"})
      - Cardinality({j \in 1..i : Char(cc, j) = "}"})

\* the place of the first '}' of cc that brings the depth back to zero, 0 when
\* there is none
ClosingPlace(cc) ==
    LET closing == {i \in Occurrences(cc, "}") : Depth(cc, i) = 0}
    IN  IF closing = {} THEN 0
        ELSE CHOOSE i \in closing : \A j \in closing : i <= j

\* the text after the class name up to that '}', empty when there is none
BoundedText(m) ==
    LET after == SubSeq(content.text, m.end, Len(content.text))
        close == ClosingPlace(after)
    IN  IF close = 0 THEN "" ELSE SubSeq(after, 1, close - 1)

\* the name(...) { occurrences (as re.finditer yields them) of a text, other
\* than constructor
MethodsWithin(bounded) ==
    SelectSeq(FindIter(method_pattern, bounded),
              LAMBDA mm : mm.g1 # "constructor")

NamesOf(entries) == [j \in 1..Len(entries) |-> entries[j].name]

\* C12: for each class match the text searched for methods is the text after
\* the class name and before the first '}' that brings the depth counter (+1
\* on '{', -1 on '}') back to zero: the methods reported are the name(...) {
\* occurrences of that text other than constructor, each lying wholly before
\* that '}', none from the text after it; when no '}' returns the counter to
\* zero the class is reported with no methods.
C12_ClassBodyBounded ==
    JavascriptAnalysed =>
        /\ Len(code_analysis.classes) = Len(ClassMatches)
        /\ \A k \in 1..Len(ClassMatches) :
             LET m == ClassMatches[k]
                 after == SubSeq(content.text, m.end, Len(content.text))
                 close == ClosingPlace(after)
                 found == MethodsWithin(BoundedText(m))
             IN  /\ NamesOf(code_analysis.classes[k].methods)
                      = [j \in 1..Len(found) |-> found[j].g1]
                 /\ \A j \in 1..Len(found) : found[j].end <= close
                 /\ close = 0 => code_analysis.classes[k].methods = <<>>

\* C12 witness: a class is followed by a method-like text after its closing
\* brace; the methods inside the braces are reported (not the constructor) and
\* the one after them is not.
C12_Witness ==
    /\ JavascriptAnalysed
    /\ content.text =
         "class Counter {\n  constructor(n) {}\n  increment(by) {\n    if (by) { }\n  }\n}\n"
         \o "  greet(name) {}\n"
    /\ Len(code_analysis.classes) = 1
    /\ NamesOf(code_analysis.classes[1].methods) = <<"increment", "if">>
    /\ Contains(SubSeq(content.text, ClosingPlace(content.text) + 1,
                       Len(content.text)), "greet(name) {")

-----------------------------------------------------------------------------
(* get_test_filename on its own: every file name with every language tag. *)

FileNames ==
    {"foo.py", "foo.java", "d/foo.java", "foo", "a.b.c", ".bashrc", "foo.",
     "x.JS", "main.ts", "lib.rs"}

Languages == {e[2] : e \in lang_map} \cup {"unknown"}

InitFilename ==
    /\ pc = "name_test_file"
    /\ source_file \in FileNames
    /\ argv = <<source_file>>
    /\ exists = TRUE
    /\ content = OtherSource
    /\ language \in Languages
    /\ code_analysis = Unset
    /\ test_content = ""
    /\ report_content = ""
    /\ test_filename = ""
    /\ files = <<>>
    /\ exit_status = -1

NextFilename == NameTestFile

SpecFilename == InitFilename /\ [][NextFilename]_vars

\* C6: get_test_filename gives test_<stem>.py for python, <stem>.test.js for
\* javascript and typescript, and for any other language test_<stem> with the
\* source file's own extension appended (one separating dot).
C6_TestFilename ==
    pc = "write_test" =>
        test_filename =
            IF language = "python"
            THEN "test_" \o PathStem(source_file) \o ".py"
            ELSE IF language \in {"javascript", "typescript"}
            THEN PathStem(source_file) \o ".test.js"
            ELSE "test_" \o PathStem(source_file) \o PathSuffix(source_file)

-----------------------------------------------------------------------------
(* The generators on their own. *)

Signature(name, line, args, doc) ==
    [name |-> name, line |-> line, args |-> args, docstring |-> doc,
     returns |-> None]

ClassModel(name, line, methods, doc) ==
    [name |-> name, line |-> line, methods |-> methods, docstring |-> doc]

CodeModel(functions, classes, lang, path) ==
    [functions |-> functions, classes |-> classes, language |-> lang,
     file_path |-> path]

\* the source path of a Code Model of a language
PathOf(lang) == IF lang = "python" THEN "my_mod.py" ELSE "my_mod.js"

\* the lines of t from place pos on, breaks the places of its line breaks
RECURSIVE LinesFrom(_, _, _)
LinesFrom(t, breaks, pos) ==
    LET e == NextStart(breaks, pos)
    IN  IF e = 0 THEN << SubSeq(t, pos, Len(t)) >>
        ELSE << SubSeq(t, pos, e - 1) >> \o LinesFrom(t, breaks, e + 1)

\* the lines of a text, the inverse of '\n'.join (lines 183, 236, 381)
LinesOf(text) == LinesFrom(text, Occurrences(text, "\n"), 1)

\* the lines that start with head, in order
LinesWith(lines, head) == SelectSeq(lines, LAMBDA l : StartsWith(l, head))

\* the pieces of s between the occurrences of ", "
SplitArgs(s) ==
    LET at == Occurrences(s, ", ")
        n == Cardinality(at)
        cut == [k \in 0..(n + 1) |->
                  IF k = 0 THEN -1
                  ELSE IF k = n + 1 THEN Len(s) + 1
                  ELSE CHOOSE i \in at : Cardinality({j \in at : j < i}) = k - 1]
    IN  [k \in 1..(n + 1) |-> SubSeq(s, cut[k-1] + 2, cut[k] - 1)]

\* the text between the first '(' and the last ')' of a line
Parenthesised(l) ==
    LET open == CHOOSE i \in Occurrences(l, "(") :
                    \A j \in Occurrences(l, "(") : i <= j
    IN  SubSeq(l, open + 1, RFind(l, ")") - 1)

-----------------------------------------------------------------------------
(* Placeholder synthesis: one callable, every parameter list. *)

ParamNames ==
    {"name", "Name", "TITLE", "text", "str", "user_name", "TitleText", "num",
     "count", "Size", "int", "item_count", "flag", "enabled", "Bool",
     "is_flag", "x"}

InitPlaceholders ==
    /\ pc = "generate"
    /\ language \in {"python", "javascript"}
    /\ source_file = PathOf(language)
    /\ argv = <<source_file>>
    /\ exists = TRUE
    /\ content = OtherSource
    /\ \E n \in 0..MaxArgs : \E args \in [1..n -> ParamNames] :
         \/ code_analysis =
              CodeModel(<<Signature("add", 1, args, None)>>, <<>>,
                        language, source_file)
         \/ /\ language = "python"
            /\ code_analysis =
                 CodeModel(<<>>,
                           <<ClassModel("Counter", 1,
                                        <<Signature("add", 2, args, None)>>,
                                        None)>>,
                           language, source_file)
    /\ test_content = ""
    /\ report_content = ""
    /\ test_filename = ""
    /\ files = <<>>
    /\ exit_status = -1

NextPlaceholders == GeneratePython \/ GenerateJavascript

SpecPlaceholders == InitPlaceholders /\ [][NextPlaceholders]_vars

\* the parameters of the one callable of the Code Model
TheArgs ==
    IF Len(code_analysis.functions) > 0
    THEN code_analysis.functions[1].args
    ELSE code_analysis.classes[1].methods[1].args

\* the invocation lines of the generated stub
InvocationLines ==
    IF language = "python"
    THEN LinesWith(LinesOf(test_content), "        # result = ")
    ELSE LinesWith(LinesOf(test_content), "      // const result = ")

\* the placeholders written in the one invocation line
PlaceholdersIn(invocation) ==
    IF Len(TheArgs) = 0 THEN <<>> ELSE SplitArgs(Parenthesised(invocation))

Placeholders == PlaceholdersIn(InvocationLines[1])

TrueLiteral == IF language = "python" THEN "True" ELSE "true"

\* C7 (as amended): each parameter name is classified case-insensitively by
\* equality with a bucket word: name/title/text/str give 'test_<param>',
\* num/count/size/int give 1, flag/enabled/bool give True (Python) or true
\* (JavaScript), in that order; every other name, also one that only contains
\* a bucket word, gives 'mock_<param>'.
C7_PlaceholderByEquality ==
    pc = "name_test_file" =>
      LET written == InvocationLines
          placeholders == PlaceholdersIn(written[1])
      IN
        /\ Len(written) = 1
        /\ Len(placeholders) = Len(TheArgs)
        /\ \A k \in 1..Len(TheArgs) :
             LET p == TheArgs[k]
                 ph == placeholders[k]
             IN  /\ Lower(p) \in {"name", "title", "text", "str"}
                      => ph = "'test_" \o p \o "'"
                 /\ Lower(p) \in {"num", "count", "size", "int"} => ph = "1"
                 /\ Lower(p) \in {"flag", "enabled", "bool"} => ph = TrueLiteral
                 /\ Lower(p) \notin {"name", "title", "text", "str", "num",
                                     "count", "size", "int", "flag", "enabled",
                                     "bool"}
                      => ph = "'mock_" \o p \o "'"

\* C7 witness: user_name, which contains a bucket word, got the mock string
\* next to Name, which is one.
C7_Witness ==
    /\ pc = "name_test_file"
    /\ TheArgs = <<"Name", "user_name">>
    /\ Placeholders = <<"'test_Name'", "'mock_user_name'">>

\* C7: each parameter name is classified case-insensitively by substring
\* membership: a name containing name/title/text gives 'test_<param>', one
\* containing count/size gives 1, one containing flag/bool gives the boolean
\* literal, and only a name matching no bucket gives 'mock_<param>'.
C7_PlaceholderBySubstring ==
    pc = "name_test_file" =>
      LET placeholders == Placeholders
      IN
        /\ Len(placeholders) = Len(TheArgs)
        /\ \A k \in 1..Len(TheArgs) :
             LET p == TheArgs[k]
                 ph == placeholders[k]
                 textual == \E w \in {"name", "title", "text"} :
                               Contains(Lower(p), w)
                 numeric == \E w \in {"count", "size"} : Contains(Lower(p), w)
                 boolean == \E w \in {"flag", "bool"} : Contains(Lower(p), w)
             IN  ph = IF textual THEN "'test_" \o p \o "'"
                      ELSE IF numeric THEN "1"
                      ELSE IF boolean THEN TrueLiteral
                      ELSE "'mock_" \o p \o "'"

-----------------------------------------------------------------------------
(* generate_test_report on its own: one entry, every docstring length. *)

\* a docstring of n characters whose k-th character depends on k
DocText(n) ==
    Concat([k \in 1..n |-> Char("abcdefghijklmnopqrstuvw", ((k - 1) % 23) + 1)])

InitReport ==
    /\ pc = "report"
    /\ language \in {"python", "javascript"}
    /\ source_file = PathOf(language)
    /\ argv = <<source_file>>
    /\ exists = TRUE
    /\ content = OtherSource
    /\ \E doc \in {None} \cup {Some(DocText(n)) : n \in 0..MaxDocLen} :
         \/ code_analysis =
              CodeModel(<<Signature("add", 1, <<>>, doc)>>, <<>>,
                        language, source_file)
         \/ code_analysis =
              CodeModel(<<>>, <<ClassModel("Counter", 1, <<>>, doc)>>,
                        language, source_file)
    /\ test_content = ""
    /\ report_content = ""
    /\ test_filename = "test_my_mod.py"
    /\ files = <<>>
    /\ exit_status = -1

NextReport == GenerateReport

SpecReport == InitReport /\ [][NextReport]_vars

\* the docstring of the one entry of the Code Model
TheDocstring ==
    IF Len(code_analysis.functions) > 0
    THEN code_analysis.functions[1].docstring
    ELSE code_analysis.classes[1].docstring

DescriptionsWritten ==
    LinesWith(LinesOf(report_content), "  - Description: ")

\* C8: in the report a docstring of more than 100 characters is rendered as
\* its first 100 characters followed by '...'; one of 1 to 100 characters is
\* rendered verbatim with no marker; an absent or empty docstring gives no
\* Description line; for functions and classes alike.
C8_DocstringRendering ==
    pc = "write_report" =>
        IF TheDocstring = None \/ TheDocstring.val = ""
        THEN DescriptionsWritten = <<>>
        ELSE IF Len(TheDocstring.val) > 100
        THEN DescriptionsWritten =
               << "  - Description: " \o SubSeq(TheDocstring.val, 1, 100)
                    \o "..." >>
        ELSE DescriptionsWritten = << "  - Description: " \o TheDocstring.val >>

\* C8 witness: a class docstring of exactly 100 characters was written out in
\* full, without the marker.
C8_Witness ==
    /\ pc = "write_report"
    /\ Len(code_analysis.classes) = 1
    /\ TheDocstring # None
    /\ Len(TheDocstring.val) = 100
    /\ DescriptionsWritten = << "  - Description: " \o TheDocstring.val >>

-----------------------------------------------------------------------------
(* The two stub generators on their own: every small Code Model. *)

RECURSIVE SeqsUpTo(_, _)
\* the sequences of at most n elements of S
SeqsUpTo(S, n) ==
    IF n = 0 THEN {<<>>}
    ELSE SeqsUpTo(S, n - 1)
         \cup {Append(q, x) : q \in {r \in SeqsUpTo(S, n - 1) : Len(r) = n - 1},
                              x \in S}

GenFunctions ==
    {Signature("add", 1, <<"a", "count">>, None),
     Signature("greet", 2, <<"name">>, Some("Say hello.")),
     Signature("reset", 3, <<>>, None)}

GenMethods ==
    {Signature("increment", 5, <<>>, None),
     Signature("__init__", 6, <<"size">>, None)}

GenClasses ==
    {ClassModel("Counter", 4, methods, None) :
        methods \in SeqsUpTo(GenMethods, MaxMethods)}

InitGenerate ==
    /\ pc = "generate"
    /\ language \in {"python", "javascript"}
    /\ source_file = PathOf(language)
    /\ argv = <<source_file>>
    /\ exists = TRUE
    /\ content = OtherSource
    /\ \E functions \in SeqsUpTo(GenFunctions, MaxFuncs) :
         \E classes \in SeqsUpTo(GenClasses, MaxClasses) :
            code_analysis = CodeModel(functions, classes, language, source_file)
    /\ test_content = ""
    /\ report_content = ""
    /\ test_filename = ""
    /\ files = <<>>
    /\ exit_status = -1

NextGenerate == GeneratePython \/ GenerateJavascript

SpecGenerate == InitGenerate /\ [][NextGenerate]_vars

\* the lines after line i up to the next empty line
BodyAfter(lines, i) ==
    LET ends == {j \in (i + 1)..Len(lines) : lines[j] = ""} \cup {Len(lines) + 1}
        e == CHOOSE j \in ends : \A k \in ends : j <= k
    IN  SubSeq(lines, i + 1, e - 1)

\* the body of the test case whose header line is head
BodyOf(lines, head) ==
    BodyAfter(lines, CHOOSE i \in 1..Len(lines) : lines[i] = head)

IsComment(l) == StartsWith(l, "        # ")

Invocations(body) == SelectSeq(body, LAMBDA l : StartsWith(l, "        # result = "))

\* the header lines Convention A owes a Code Model, in order
ExpectedCases(model) ==
    Flatten([k \in 1..Len(model.functions) |->
               << "    def test_" \o model.functions[k].name \o "_basic(self):",
                  "    def test_" \o model.functions[k].name
                     \o "_edge_cases(self):" >>])
    \o Flatten([c \in 1..Len(model.classes) |->
                  [k \in 1..Len(model.classes[c].methods) |->
                     "    def test_" \o Lower(model.classes[c].name) \o "_"
                     \o model.classes[c].methods[k].name \o "_basic(self):"]])

TotalMethods(model) ==
    Len(Flatten([c \in 1..Len(model.classes) |-> model.classes[c].methods]))

\* one test class, one setUp, the owed test cases and no other; the basic
\* case of a function is comments with one commented-out invocation; the case
\* of a method builds a bare instance and comments its invocation out
ConventionA_Frame(lines) ==
    LET module == PathStem(code_analysis.file_path)
    IN
    /\ Len(LinesWith(lines, "class ")) = 1
    /\ Len(LinesWith(lines, "    def setUp(")) = 1
    /\ LinesWith(lines, "    def test_") = ExpectedCases(code_analysis)
    /\ Len(LinesWith(lines, "    def test_"))
         = 2 * Len(code_analysis.functions) + TotalMethods(code_analysis)
    /\ \A k \in 1..Len(code_analysis.functions) :
         LET f == code_analysis.functions[k]
             basic == BodyOf(lines,
                             "    def test_" \o f.name \o "_basic(self):")
         IN  /\ \A i \in 1..Len(basic) : IsComment(basic[i])
             /\ Len(Invocations(basic)) = 1
             /\ StartsWith(Invocations(basic)[1],
                           "        # result = " \o module \o "." \o f.name \o "(")
    /\ \A c \in 1..Len(code_analysis.classes) :
         \A k \in 1..Len(code_analysis.classes[c].methods) :
           LET cls == code_analysis.classes[c]
               m == cls.methods[k]
               body == BodyOf(lines,
                              "    def test_" \o Lower(cls.name) \o "_" \o m.name
                              \o "_basic(self):")
           IN  /\ SelectSeq(body, LAMBDA l : ~IsComment(l))
                    = << "        instance = " \o module \o "." \o cls.name
                           \o "()" >>
               /\ Len(Invocations(body)) = 1
               /\ StartsWith(Invocations(body)[1],
                             "        # result = instance." \o m.name \o "(")

\* the bodies of the edge-cases test cases of the functions
EdgeBodies(lines) ==
    [k \in 1..Len(code_analysis.functions) |->
       BodyOf(lines,
              "    def test_" \o code_analysis.functions[k].name
              \o "_edge_cases(self):")]

\* C9 (as amended): Convention A gives one test class with one setUp stub, two
\* test cases per function and one per class method, 2*|functions| + methods
\* in all; the basic case of a function is comment lines with one
\* commented-out invocation; the edge-cases case is two comment lines and has
\* NO invocation line; the case of a method constructs <module>.<Class>() and
\* has its invocation commented out.
C9_ConventionA ==
    (pc = "name_test_file" /\ language = "python") =>
      LET lines == LinesOf(test_content)
          edges == EdgeBodies(lines)
      IN
        /\ ConventionA_Frame(lines)
        /\ \A k \in 1..Len(edges) :
             /\ Len(edges[k]) = 2
             /\ \A i \in 1..2 : IsComment(edges[k][i])
             /\ Invocations(edges[k]) = <<>>

\* C9 witness: a model of two functions and a class of one method was
\* rendered as five test cases.
C9_Witness ==
    /\ pc = "name_test_file"
    /\ language = "python"
    /\ Len(code_analysis.functions) = 2
    /\ TotalMethods(code_analysis) = 1
    /\ Len(LinesWith(LinesOf(test_content), "    def test_")) = 5
    /\ EdgeBodies(LinesOf(test_content))[1] = << "        # Test edge cases for "
                            \o code_analysis.functions[1].name,
                          "        # TODO: Add edge case tests for "
                            \o code_analysis.functions[1].name >>

\* C9: as above, but BOTH test cases of a function, the edge-cases one too,
\* consist of comment lines including one commented-out invocation line.
C9_ConventionA_BothInvoke ==
    (pc = "name_test_file" /\ language = "python") =>
      LET lines == LinesOf(test_content)
          edges == EdgeBodies(lines)
      IN
        /\ ConventionA_Frame(lines)
        /\ \A k \in 1..Len(edges) :
             /\ \A i \in 1..Len(edges[k]) : IsComment(edges[k][i])
             /\ Len(Invocations(edges[k])) = 1

\* the nested describe/test header lines Convention B owes a Code Model
ExpectedGroups(model) ==
    Flatten([k \in 1..Len(model.functions) |->
               << "  describe('" \o model.functions[k].name \o "', () => {",
                  "    test('should execute " \o model.functions[k].name
                     \o " successfully', () => {",
                  "    test('should handle edge cases for "
                     \o model.functions[k].name \o "', () => {" >>])

\* C10: Convention B never renders classes: the text generated for the Code
\* Model is the text generated for the same file_path and functions with any
\* other list of classes, and it holds one nested describe group with two
\* test cases per function and no other group or test case.
C10_ClassesNotRendered ==
    (pc = "name_test_file" /\ language = "javascript") =>
        /\ \A classes \in SeqsUpTo(GenClasses, MaxClasses) :
             generate_javascript_test_content(
                 [code_analysis EXCEPT !.classes = classes]) = test_content
        /\ SelectSeq(LinesOf(test_content),
                     LAMBDA l : \/ StartsWith(l, "  describe(")
                                \/ StartsWith(l, "    test("))
             = ExpectedGroups(code_analysis)
        /\ Len(LinesWith(LinesOf(test_content), "describe(")) = 1
        /\ \A c \in 1..Len(code_analysis.classes) :
             /\ ~Contains(test_content, code_analysis.classes[c].name)
             /\ \A k \in 1..Len(code_analysis.classes[c].methods) :
                  ~Contains(test_content,
                            code_analysis.classes[c].methods[k].name)

\* C10 witness: a model with a function and a class that has a method was
\* rendered, and the text is the one of the class-free model.
C10_Witness ==
    /\ pc = "name_test_file"
    /\ language = "javascript"
    /\ Len(code_analysis.functions) = 1
    /\ TotalMethods(code_analysis) = 1
    /\ test_content
         = generate_javascript_test_content(
               [code_analysis EXCEPT !.classes = <<>>])
    /\ Len(LinesWith(LinesOf(test_content), "    test(")) = 2

====
